---- MODULE Spec2Model ----
(***************************************************************************)
(* Model of the EVV reconciliation dashboard (DashboardPage): file         *)
(* selection, the asynchronous processing run (handleProcessFiles) and the *)
(* row pipeline it applies: extraction, sort, grouping, cross-reference,   *)
(* flags and the CLAIMS FOR INVESTIGATION tab.                             *)
(*                                                                         *)
(* Conventions.  A JavaScript cell value is a record with a type tag:      *)
(* strings, numbers (integers here; NaN is a tagged number) and Date       *)
(* objects.  Times are counted in days since 1970-01-01 instead of         *)
(* milliseconds (a monotone rescaling; the code only compares them).       *)
(* Plain objects used as maps are functions on their own string keys;     *)
(* keys are identifiers that are not members of Object.prototype.          *)
(***************************************************************************)
EXTENDS Integers, Sequences, FiniteSets, TLC

\* ------------------------------------------------------------------ bounds
MaxRows == 3          \* data rows in an accepted-visits file
MaxClaimRows == 2     \* data rows in a claim-search file
MaxAlerts == 2        \* failed runs counted before the counter saturates
MaxHeaderCells == 2   \* width of a sheet handed to one extraction
MaxDataRows == 2      \* data rows of a sheet handed to one extraction

\* ------------------------------------------------------- JavaScript values
Str(s) == [t |-> "string", s |-> s, n |-> 0]
Num(n) == [t |-> "number", s |-> "", n |-> n]
DateObj(d) == [t |-> "date", s |-> "", n |-> d]
NaN == [t |-> "number", s |-> "NaN", n |-> 0]

IsNaN(c) == c.t = "number" /\ c.s = "NaN"

\* ToBoolean: '', 0 and NaN are falsy, every Date object is truthy
Truthy(c) ==
  CASE c.t = "string" -> c.s # ""
    [] c.t = "number" -> ~IsNaN(c) /\ c.n # 0
    [] OTHER -> TRUE

\* a || b
OrElse(a, b) == IF Truthy(a) THEN a ELSE b

\* ---------------------------------------------------------------- columns
EVV_ACCEPTED_COLUMNS ==
  << "Visit ID", "Provider Legal Name", "Medicaid ID", "Member First Name",
     "Member Last Name", "Payer Name", "HCPCS Code", "Modifiers", "Visit Date",
     "EVV Bill Hours", "Billable Units", "Billable Units Total", "Prior Claim",
     "Possible", "Confirmed", "Other" >>

EVV_CLAIM_COLUMNS ==
  << "Visit ID", "Claim Detail From Date", "Medicaid ID", "Member Last Name",
     "HCPCS", "Modifiers", "Claim Units", "NPI/API", "Service Provider ID",
     "Payer Name" >>

investigationExtraColumns ==
  << "SERVICE PROVIDER ID", "Batch/ICN#", "Status", "Amount", "Denial Code",
     "Comment 1", "Comment 2", "Resolved" >>

\* ----------------------------------------------------------------- inputs
\* one accepted-visits row in the column order of EVV_ACCEPTED_COLUMNS;
\* derived is what the file holds in the four derived columns and in 'Other'
AcceptedRow(visitId, medicaidId, payerName, hcpcs, visitDate, units, derived) ==
  << Str(visitId), Str("Care Co"), Str(medicaidId), Str("Ann"), Str("Lee"),
     Str(payerName), Str(hcpcs), Str(""), visitDate, Num(1), units,
     derived, derived, derived, derived, derived >>

\* one claim-search row in the column order of EVV_CLAIM_COLUMNS
ClaimRow(visitId, units) ==
  << Str(visitId), Str("2024-01-01"), Str("M1"), Str("Lee"), Str("T1019"),
     Str(""), units, Str(""), Str(""), Str("acme") >>

AcceptedRowPool ==
  { AcceptedRow("v1", "M1", "acme", "T1019", Str("2024-01-01"), Num(2), Str("")),
    AcceptedRow("v2", "M1", "acme", "T1019", Str("2024-01-01"), Num(3), Str("")),
    AcceptedRow("", "M1", "Acme", "S5125", Str("2024-01-01"), Str("5"), Str("")),
    AcceptedRow("v1", "M2", "acme", "T1019", DateObj(19724), Str("n/a"), Str("Review")),
    AcceptedRow("v2", "M2", "acme", "T1019", Str(""), Num(3), Str("")),
    AcceptedRow("v1", "M2", "acme", "T1019", Str("2024-01-01"), Num(0), Str("")),
    AcceptedRow("v3", "", "", "T1019", Str("2024-01-02"), Num(3), Str("")),
    AcceptedRow("v3", "", "acme", "T1019", Str("2024-01-02"), Num(3), Str("")),
    AcceptedRow("v2", "M1", "acme", "T1019", Str("2024-01-01"), Str(""), Str("")),
    AcceptedRow("v3", "M1", "acme", "T1019", Str("2024-01-02"), Num(3), Str("")) }

ClaimRowPool ==
  { ClaimRow("v1", Num(5)), ClaimRow("v1", Str("n/a")), ClaimRow("v2", Str("")) }

\* ----------------------------------------------------------- characters
Char(s, i) == SubSeq(s, i, i)
Digits == "0123456789"
LowerAlpha == "abcdefghijklmnopqrstuvwxyz"
UpperAlpha == "ABCDEFGHIJKLMNOPQRSTUVWXYZ"

IndexIn(ch, alphabet) ==
  IF \E i \in 1..Len(alphabet) : Char(alphabet, i) = ch
  THEN CHOOSE i \in 1..Len(alphabet) : Char(alphabet, i) = ch
  ELSE 0

CharsOf(alphabet) == {Char(alphabet, i) : i \in 1..Len(alphabet)}
DigitValue == [ch \in CharsOf(Digits) |-> IndexIn(ch, Digits) - 1]
UpperToLower == [ch \in CharsOf(UpperAlpha) |-> Char(LowerAlpha, IndexIn(ch, UpperAlpha))]

IsDigit(ch) == ch \in DOMAIN DigitValue

\* Number::toString for integers
RECURSIVE NumToStr(_)
NumToStr(n) ==
  IF n < 0 THEN "-" \o NumToStr(0 - n)
  ELSE IF n < 10 THEN Char(Digits, n + 1)
  ELSE NumToStr(n \div 10) \o Char(Digits, (n % 10) + 1)

RECURSIVE Pad(_, _)
Pad(str, width) == IF Len(str) >= width THEN str ELSE Pad("0" \o str, width)

\* String.prototype.trim
RECURSIVE TrimStart(_)
TrimStart(s) ==
  IF Len(s) > 0 /\ Char(s, 1) = " " THEN TrimStart(SubSeq(s, 2, Len(s))) ELSE s
RECURSIVE TrimEnd(_)
TrimEnd(s) ==
  IF Len(s) > 0 /\ Char(s, Len(s)) = " " THEN TrimEnd(SubSeq(s, 1, Len(s) - 1)) ELSE s
Trim(s) == TrimEnd(TrimStart(s))

\* String.prototype.toLowerCase
LowerChar(ch) == IF ch \in DOMAIN UpperToLower THEN UpperToLower[ch] ELSE ch
RECURSIVE ToLowerCase(_)
ToLowerCase(s) ==
  IF Len(s) = 0 THEN "" ELSE LowerChar(Char(s, 1)) \o ToLowerCase(SubSeq(s, 2, Len(s)))

\* parseFloat on the strings of this model: optional leading blanks, an
\* optional sign and a run of decimal digits; anything else is NaN.
\* (No string of the model has a fraction, an exponent or "Infinity".)
RECURSIVE DigitRun(_, _, _)
DigitRun(s, i, acc) ==
  IF i <= Len(s) /\ IsDigit(Char(s, i))
  THEN DigitRun(s, i + 1, 10 * acc + DigitValue[Char(s, i)])
  ELSE acc
\* the digits of body, negated after a "-"
ParseDigits(neg, body) ==
  IF Len(body) > 0 /\ IsDigit(Char(body, 1))
  THEN Num(IF neg THEN 0 - DigitRun(body, 1, 0) ELSE DigitRun(body, 1, 0))
  ELSE NaN
\* s has no leading blanks
ParseSigned(s) ==
  IF Len(s) > 0 /\ (Char(s, 1) = "-" \/ Char(s, 1) = "+")
  THEN ParseDigits(Char(s, 1) = "-", SubSeq(s, 2, Len(s)))
  ELSE ParseDigits(FALSE, s)
ParseFloat(str) == ParseSigned(TrimStart(str))

\* ------------------------------------------------------------------ dates
\* days since 1970-01-01 <-> civil date (proleptic Gregorian calendar)
\* (y is the year of the March-based calendar, mp the month counted from March)
DaysFromEra(era, yoe, doy) ==
  era * 146097 + (yoe * 365 + yoe \div 4 - yoe \div 100 + doy) - 719468
DaysFromMarchYear(y, mp, d) ==
  DaysFromEra(y \div 400, y - (y \div 400) * 400, (153 * mp + 2) \div 5 + d - 1)
DaysFromCivil(y0, m, d) ==
  DaysFromMarchYear(IF m <= 2 THEN y0 - 1 ELSE y0, IF m > 2 THEN m - 3 ELSE m + 9, d)

CivilOf(y0, m, d) == [y |-> y0 + (IF m <= 2 THEN 1 ELSE 0), m |-> m, d |-> d]
CivilFromMonth(era, yoe, doy, mp) ==
  CivilOf(yoe + era * 400, IF mp < 10 THEN mp + 3 ELSE mp - 9,
          doy - (153 * mp + 2) \div 5 + 1)
CivilFromDayOfYear(era, yoe, doy) == CivilFromMonth(era, yoe, doy, (5 * doy + 2) \div 153)
CivilFromYearOfEra(era, doe, yoe) ==
  CivilFromDayOfYear(era, yoe, doe - (365 * yoe + yoe \div 4 - yoe \div 100))
CivilFromDayOfEra(era, doe) ==
  CivilFromYearOfEra(era, doe,
    (doe - doe \div 1460 + doe \div 36524 - doe \div 146096) \div 365)
CivilFromShifted(z) == CivilFromDayOfEra(z \div 146097, z - (z \div 146097) * 146097)
CivilFromDays(z0) == CivilFromShifted(z0 + 719468)

DaysInMonth(y, m) ==
  IF m = 2 THEN (IF (y % 4 = 0 /\ y % 100 # 0) \/ y % 400 = 0 THEN 29 ELSE 28)
  ELSE IF m \in {4, 6, 9, 11} THEN 30 ELSE 31

AllDigits(s) == \A i \in 1..Len(s) : IsDigit(Char(s, i))

DateOf(y, m, d) ==
  IF m \in 1..12 /\ d >= 1 /\ d <= DaysInMonth(y, m)
  THEN Num(DaysFromCivil(y, m, d)) ELSE NaN

\* new Date(str).getTime() for the date-only ISO form YYYY-MM-DD (parsed as
\* UTC midnight); every other string of the model is not a date: NaN.
DateParse(s) ==
  IF /\ Len(s) = 10
     /\ Char(s, 5) = "-" /\ Char(s, 8) = "-"
     /\ AllDigits(SubSeq(s, 1, 4)) /\ AllDigits(SubSeq(s, 6, 7))
     /\ AllDigits(SubSeq(s, 9, 10))
  THEN DateOf(DigitRun(s, 1, 0), DigitRun(s, 6, 0), DigitRun(s, 9, 0))
  ELSE NaN

\* Date.prototype.toISOString (Date objects of the model are valid, at
\* UTC midnight)
ISOStringOf(c) ==
  Pad(NumToStr(c.y), 4) \o "-" \o Pad(NumToStr(c.m), 2) \o "-"
    \o Pad(NumToStr(c.d), 2) \o "T00:00:00.000Z"
ToISOString(d) == ISOStringOf(CivilFromDays(d))

\* Date.prototype.toString in a UTC environment
DateStringOf(d, c) ==
  <<"Thu", "Fri", "Sat", "Sun", "Mon", "Tue", "Wed">>[(d % 7) + 1] \o " "
    \o <<"Jan", "Feb", "Mar", "Apr", "May", "Jun",
          "Jul", "Aug", "Sep", "Oct", "Nov", "Dec">>[c.m]
    \o " " \o Pad(NumToStr(c.d), 2)
    \o " " \o Pad(NumToStr(c.y), 4)
    \o " 00:00:00 GMT+0000 (Coordinated Universal Time)"
DateToString(d) == DateStringOf(d, CivilFromDays(d))

\* String(value)
JSString(c) ==
  CASE c.t = "string" -> c.s
    [] c.t = "number" -> IF IsNaN(c) THEN "NaN" ELSE NumToStr(c.n)
    [] OTHER -> DateToString(c.n)

\* ---------------------------------------------------------- localeCompare
\* String.prototype.localeCompare with the default (root) collation on the
\* characters of this model: blank and punctuation sort before digits,
\* digits before letters; letter case is only a tie-break (lower case
\* first) between strings that are equal apart from case.
CollationOrder == " _-,;:!?./|0123456789abcdefghijklmnopqrstuvwxyz"
CollationRank == [ch \in CharsOf(CollationOrder) |-> IndexIn(ch, CollationOrder)]
RankOf(lower) == IF lower \in DOMAIN CollationRank THEN CollationRank[lower] ELSE 0
CharRank(ch) == RankOf(LowerChar(ch))

RECURSIVE PrimaryCompare(_, _, _)
PrimaryCompare(a, b, i) ==
  IF i > Len(a) /\ i > Len(b) THEN 0
  ELSE IF i > Len(a) THEN 0 - 1
  ELSE IF i > Len(b) THEN 1
  ELSE IF CharRank(Char(a, i)) < CharRank(Char(b, i)) THEN 0 - 1
  ELSE IF CharRank(Char(a, i)) > CharRank(Char(b, i)) THEN 1
  ELSE PrimaryCompare(a, b, i + 1)

RECURSIVE CaseCompare(_, _, _)
CaseCompare(a, b, i) ==
  IF i > Len(a) \/ i > Len(b) THEN 0
  ELSE IF Char(a, i) = Char(b, i) THEN CaseCompare(a, b, i + 1)
  ELSE IF Char(a, i) = LowerChar(Char(a, i)) THEN 0 - 1
  ELSE 1

CaseTieBreak(primary, a, b) == IF primary # 0 THEN primary ELSE CaseCompare(a, b, 1)
LocaleCompare(a, b) == CaseTieBreak(PrimaryCompare(a, b, 1), a, b)

\* ------------------------------------------------------------------ lookup
\* Array.prototype.indexOf, as a position 1..Len (0 when absent; the code's
\* index is this position minus one)
IndexOf(seq, x) ==
  IF \E i \in 1..Len(seq) : seq[i] = x
  THEN CHOOSE i \in 1..Len(seq) : seq[i] = x /\ \A j \in 1..(i - 1) : seq[j] # x
  ELSE 0

\* ------------------------------------------------------------------ files
\* A File is null, bytes that do not parse, or a workbook: a sequence of
\* sheets, each sheet the matrix of its rows (first row = headers).  An
\* empty cell is the empty string.
NoFile == [kind |-> "null", sheets |-> << >>]
Unreadable == [kind |-> "unreadable", sheets |-> << >>]
Workbook(sheets) == [kind |-> "workbook", sheets |-> sheets]

\* a promise of extractExcelData's result, and what it settles to
NoPromise == [status |-> "none", error |-> "", headers |-> << >>, data |-> << >>]
Pending == [status |-> "pending", error |-> "", headers |-> << >>, data |-> << >>]
Rejected(msg) == [status |-> "rejected", error |-> msg, headers |-> << >>, data |-> << >>]
Fulfilled(h, d) == [status |-> "fulfilled", error |-> "", headers |-> h, data |-> d]

\* header name -> position of its last occurrence (forEach overwrites)
ColumnIndices(allHeaders) ==
  [h \in {allHeaders[i] : i \in 1..Len(allHeaders)} |->
     CHOOSE i \in 1..Len(allHeaders) :
       allHeaders[i] = h /\ \A j \in (i + 1)..Len(allHeaders) : allHeaders[j] # h]

\* targetColumns.map(colName => ...): the cell under the header colName, ''
\* when no header has that name or the row has no such cell
RowData(row, targetColumns, columnIndices) ==
  [c \in 1..Len(targetColumns) |->
     IF /\ targetColumns[c] \in DOMAIN columnIndices
        /\ columnIndices[targetColumns[c]] <= Len(row)
     THEN row[columnIndices[targetColumns[c]]]
     ELSE Str("")]

\* a variant whose loop starts at the header row
ExtractRowsFromHeader(jsonData, targetColumns, columnIndices) ==
  [i \in 1..Len(jsonData) |-> RowData(jsonData[i], targetColumns, columnIndices)]

\* for (let i = 1; i < jsonData.length; i++) extractedData.push(rowData)
ExtractRows(jsonData, targetColumns, columnIndices) ==
  [i \in 1..(Len(jsonData) - 1) |-> RowData(jsonData[i + 1], targetColumns, columnIndices)]

\* extractExcelData of the SheetJS page
extractExcelData(file, columns) ==
  IF file.kind # "workbook" THEN Rejected("Unreadable file")
  ELSE IF Len(file.sheets) = 0 THEN Rejected("No worksheet found in the file")
  ELSE LET jsonData == file.sheets[1] IN
    IF Len(jsonData) = 0 THEN Rejected("No data found in the worksheet")
    ELSE LET allHeaders == [i \in 1..Len(jsonData[1]) |->
                              Trim(JSString(OrElse(jsonData[1][i], Str(""))))]
             targetColumns == IF Len(columns) > 0 THEN columns ELSE allHeaders
         IN Fulfilled(targetColumns,
                      ExtractRows(jsonData, targetColumns, ColumnIndices(allHeaders)))

\* extractExcelData of the ExcelJS page: eachCell and eachRow visit only
\* cells and rows that hold a value, and there is no zero-row check
RowHasValue(row) == \E i \in 1..Len(row) : row[i] # Str("")

\* the elements of seq at the positions in idx, in order
RECURSIVE KeepAt(_, _, _)
KeepAt(seq, i, idx) ==
  IF i > Len(seq) THEN << >>
  ELSE (IF i \in idx THEN <<seq[i]>> ELSE << >>) \o KeepAt(seq, i + 1, idx)

extractExcelDataExcelJS(file, columns) ==
  IF file.kind # "workbook" THEN Rejected("Unreadable file")
  ELSE IF Len(file.sheets) = 0 THEN Rejected("No worksheet found in the file")
  ELSE LET worksheet == file.sheets[1]
           headerRow == IF Len(worksheet) > 0 THEN worksheet[1] ELSE << >>
           hasCell(i) == headerRow[i] # Str("")
           cellValue(i) == Trim(JSString(headerRow[i]))
           cells == {j \in 1..Len(headerRow) : hasCell(j)}
           allHeaders == KeepAt([i \in 1..Len(headerRow) |-> cellValue(i)], 1, cells)
           names == {cellValue(i) : i \in cells}
           columnIndices ==
             [h \in names |->
                CHOOSE i \in 1..Len(headerRow) :
                  /\ hasCell(i) /\ cellValue(i) = h
                  /\ \A j \in (i + 1)..Len(headerRow) : ~(hasCell(j) /\ cellValue(j) = h)]
           targetColumns == IF Len(columns) > 0 THEN columns ELSE allHeaders
           rowData(row) ==
             [c \in 1..Len(targetColumns) |->
                IF /\ targetColumns[c] \in DOMAIN columnIndices
                   /\ columnIndices[targetColumns[c]] <= Len(row)
                THEN row[columnIndices[targetColumns[c]]]
                ELSE Str("")]
           visited == {i \in 2..Len(worksheet) : RowHasValue(worksheet[i])}
       IN Fulfilled(targetColumns,
                    KeepAt([i \in 1..Len(worksheet) |-> rowData(worksheet[i])], 1, visited))

\* ------------------------------------------------------------ input files
SeqsUpTo(S, n) == UNION {[1..k -> S] : k \in 0..n}

HeaderCells(columns) == [i \in 1..Len(columns) |-> Str(columns[i])]
SheetFile(columns, rows) == Workbook(<< <<HeaderCells(columns)>> \o rows >>)
NoSheetFile == Workbook(<< >>)
ZeroRowFile == Workbook(<< << >> >>)

AcceptedFiles ==
  {SheetFile(EVV_ACCEPTED_COLUMNS, rows) : rows \in SeqsUpTo(AcceptedRowPool, MaxRows)}
    \cup {NoSheetFile, ZeroRowFile}
ClaimFiles ==
  {SheetFile(EVV_CLAIM_COLUMNS, rows) : rows \in SeqsUpTo(ClaimRowPool, MaxClaimRows)}
    \cup {NoSheetFile, Unreadable}

\* the files a user picks while the page is open
AcceptedChoices ==
  { ZeroRowFile,
    SheetFile(EVV_ACCEPTED_COLUMNS,
      << AcceptedRow("v1", "M1", "acme", "T1019", Str("2024-01-01"), Num(2), Str("")),
         AcceptedRow("v2", "M1", "acme", "T1019", Str("2024-01-01"), Num(3), Str("")) >>),
    SheetFile(EVV_ACCEPTED_COLUMNS,
      << AcceptedRow("v3", "", "", "T1019", Str("2024-01-02"), Num(3), Str("")) >>) }
ClaimChoices ==
  { NoSheetFile,
    SheetFile(EVV_CLAIM_COLUMNS, << ClaimRow("v1", Num(5)) >>),
    SheetFile(EVV_CLAIM_COLUMNS, << ClaimRow("v2", Num(3)) >>) }

\* ------------------------------------------------- column positions
payerNameIdx == IndexOf(EVV_ACCEPTED_COLUMNS, "Payer Name")
medicaidIdIdx == IndexOf(EVV_ACCEPTED_COLUMNS, "Medicaid ID")
visitDateIdx == IndexOf(EVV_ACCEPTED_COLUMNS, "Visit Date")
memberFirstNameIdx == IndexOf(EVV_ACCEPTED_COLUMNS, "Member First Name")
memberLastNameIdx == IndexOf(EVV_ACCEPTED_COLUMNS, "Member Last Name")
hcpcsCodeIdx == IndexOf(EVV_ACCEPTED_COLUMNS, "HCPCS Code")
modifiersIdx == IndexOf(EVV_ACCEPTED_COLUMNS, "Modifiers")
billableUnitsIdx == IndexOf(EVV_ACCEPTED_COLUMNS, "Billable Units")
billableUnitsTotalIdx == IndexOf(EVV_ACCEPTED_COLUMNS, "Billable Units Total")
priorClaimIdx == IndexOf(EVV_ACCEPTED_COLUMNS, "Prior Claim")
possibleIdx == IndexOf(EVV_ACCEPTED_COLUMNS, "Possible")
confirmedIdx == IndexOf(EVV_ACCEPTED_COLUMNS, "Confirmed")
visitIdIdx == IndexOf(EVV_ACCEPTED_COLUMNS, "Visit ID")
claimVisitIdIdx == IndexOf(EVV_CLAIM_COLUMNS, "Visit ID")
claimUnitsIdx == IndexOf(EVV_CLAIM_COLUMNS, "Claim Units")

\* String(cell || '')
CellText(c) == JSString(OrElse(c, Str("")))

\* ------------------------------------------------------------------- sort
\* dateA instanceof Date ? dateA.getTime() : new Date(String(dateA)).getTime()
TimeOf(c) == IF c.t = "date" THEN Num(c.n) ELSE DateParse(JSString(c))

\* a variant that compares the Payer Name as written
SortKeyCaseSensitive(row) ==
  [payer |-> CellText(row[payerNameIdx]),
   medicaid |-> CellText(row[medicaidIdIdx]),
   time |-> TimeOf(row[visitDateIdx])]

\* what a comparator reads of a row
SortKey(row) ==
  [payer |-> ToLowerCase(CellText(row[payerNameIdx])),
   medicaid |-> CellText(row[medicaidIdIdx]),
   time |-> TimeOf(row[visitDateIdx])]

\* the comparator of sortedAcceptedData on the keys of its two rows; its
\* result is a number or NaN
AcceptedCompare(a, b) ==
  IF a.payer # b.payer THEN Num(LocaleCompare(a.payer, b.payer))
  ELSE IF a.medicaid # b.medicaid THEN Num(LocaleCompare(a.medicaid, b.medicaid))
  ELSE IF IsNaN(a.time) \/ IsNaN(b.time) THEN NaN
  ELSE Num(a.time.n - b.time.n)

\* a variant with the operands of the Medicaid ID comparison swapped
InvestigationCompareMedicaidSwapped(a, b) ==
  IF a.payer # b.payer THEN Num(LocaleCompare(a.payer, b.payer))
  ELSE Num(LocaleCompare(b.medicaid, a.medicaid))

\* the comparator of sortedInvestigationData on the keys of its two rows
InvestigationCompare(a, b) ==
  IF a.payer # b.payer THEN Num(LocaleCompare(a.payer, b.payer))
  ELSE Num(LocaleCompare(a.medicaid, b.medicaid))

\* Array.prototype.sort calls the comparator and reads a NaN result as +0
NaNAsZero(v) == IF IsNaN(v) THEN 0 ELSE v.n
SortCompare(kind, a, b) ==
  NaNAsZero(IF kind = "accepted" THEN AcceptedCompare(a, b) ELSE InvestigationCompare(a, b))

\* the comparator's verdict on every pair of positions of rows
MatrixOfKeys(kind, keys) ==
  [i \in 1..Len(keys) |-> [j \in 1..Len(keys) |-> SortCompare(kind, keys[i], keys[j])]]
CompareMatrix(kind, rows) ==
  MatrixOfKeys(kind, [i \in 1..Len(rows) |-> SortKey(rows[i])])

\* ECMAScript's "consistent comparator" for the values being sorted: the
\* verdicts are those of a strict weak order, that is, every verdict agrees
\* with the comparison of the two positions' ranks (the number of positions
\* that sort strictly before each)
AgreesWithRank(cmp, rank) ==
  \A a, b \in DOMAIN cmp :
    /\ cmp[a][b] = 0 <=> rank[a] = rank[b]
    /\ cmp[a][b] < 0 <=> rank[a] < rank[b]
ConsistentComparator(cmp) ==
  AgreesWithRank(cmp,
    [a \in DOMAIN cmp |-> Cardinality({b \in DOMAIN cmp : cmp[a][b] > 0})])

\* stable insertion of position x: behind every position that does not sort
\* after it
RECURSIVE SortedInsert(_, _, _)
SortedInsert(cmp, sorted, x) ==
  IF Len(sorted) = 0 THEN <<x>>
  ELSE IF cmp[x][Head(sorted)] < 0 THEN <<x>> \o sorted
  ELSE <<Head(sorted)>> \o SortedInsert(cmp, Tail(sorted), x)

RECURSIVE StableOrderFrom(_, _, _, _)
StableOrderFrom(cmp, n, i, acc) ==
  IF i > n THEN acc ELSE StableOrderFrom(cmp, n, i + 1, SortedInsert(cmp, acc, i))

\* the positions of rows in stable sorted order
StableOrder(cmp, n) == StableOrderFrom(cmp, n, 1, << >>)

\* [...rows].sort(comparator): the stable sorted order when the comparator is
\* consistent; otherwise the order is implementation-defined
SortOrders(cmp, n) ==
  IF ConsistentComparator(cmp) THEN {StableOrder(cmp, n)}
  ELSE {[i \in 1..n |-> p[i]] : p \in Permutations(1..n)}
SortOutcomes(kind, rows) ==
  {[i \in 1..Len(rows) |-> rows[order[i]]] :
     order \in SortOrders(CompareMatrix(kind, rows), Len(rows))}

\* ------------------------------------------------------ cross-reference
\* a variant that keeps the first Claim Units stored for a Visit ID
RECURSIVE ClaimUnitsMapFirstWins(_, _, _)
ClaimUnitsMapFirstWins(data, i, map) ==
  IF i > Len(data) THEN map
  ELSE ClaimUnitsMapFirstWins(data, i + 1,
         IF CellText(data[i][claimVisitIdIdx]) # ""
         THEN map @@ (CellText(data[i][claimVisitIdIdx]) :> data[i][claimUnitsIdx])
         ELSE map)

\* claimResult.data.forEach(row => ... claimUnitsMap[visitId] = row[claimUnitsIdx])
RECURSIVE ClaimUnitsMapFrom(_, _, _)
ClaimUnitsMapFrom(data, i, map) ==
  IF i > Len(data) THEN map
  ELSE ClaimUnitsMapFrom(data, i + 1,
         IF CellText(data[i][claimVisitIdIdx]) # ""
         THEN (CellText(data[i][claimVisitIdIdx]) :> data[i][claimUnitsIdx]) @@ map
         ELSE map)

EmptyMap == [k \in {} |-> 0]
claimUnitsMap(claimData) == ClaimUnitsMapFrom(claimData, 1, EmptyMap)

\* visitId && claimUnitsMap[visitId] !== undefined
Resolves(row, map) ==
  CellText(row[visitIdIdx]) # "" /\ CellText(row[visitIdIdx]) \in DOMAIN map

\* --------------------------------------------------------------- grouping
\* `${medicaidId}|${firstName}|${lastName}|${hcpcs}|${modifiers}|${visitDate}`
createGroupKey(row) ==
  CellText(row[medicaidIdIdx]) \o "|" \o CellText(row[memberFirstNameIdx])
    \o "|" \o CellText(row[memberLastNameIdx]) \o "|" \o CellText(row[hcpcsCodeIdx])
    \o "|" \o CellText(row[modifiersIdx]) \o "|"
    \o (IF row[visitDateIdx].t = "date"
        THEN ToISOString(row[visitDateIdx].n)
        ELSE CellText(row[visitDateIdx]))

\* number || 0
NumberOr0(v) == IF Truthy(v) THEN v.n ELSE 0
\* parseFloat(String(cell || 0)) || 0
UnitsOf(c) == NumberOr0(ParseFloat(JSString(OrElse(c, Num(0)))))
\* parseFloat(String(value)) || 0
ClaimUnitsOf(c) == NumberOr0(ParseFloat(JSString(c)))

\* map[key], with 0 standing in where the code reads undefined and
\* replaces it by 0
GetOr0(map, key) == IF key \in DOMAIN map THEN map[key] ELSE 0

\* a variant that sums per contiguous block: a key met again after rows of
\* another key starts its Billable Units sum afresh
GroupStepPerBlock(acc, row, index, key, map) ==
  [groupSums |->
     (key :> ((IF key \in DOMAIN acc.groupLastIndex /\ acc.groupLastIndex[key] = index - 1
               THEN acc.groupSums[key] ELSE 0)
              + UnitsOf(row[billableUnitsIdx])))
       @@ acc.groupSums,
   groupLastIndex |-> (key :> index) @@ acc.groupLastIndex,
   groupPriorClaim |->
     IF Resolves(row, map)
     THEN (key :> (GetOr0(acc.groupPriorClaim, key)
                     + ClaimUnitsOf(map[CellText(row[visitIdIdx])])))
            @@ acc.groupPriorClaim
     ELSE acc.groupPriorClaim]

\* one turn of the forEach, on the row at index with the given key
GroupStep(acc, row, index, key, map) ==
  [groupSums |->
     (key :> (GetOr0(acc.groupSums, key) + UnitsOf(row[billableUnitsIdx])))
       @@ acc.groupSums,
   groupLastIndex |-> (key :> index) @@ acc.groupLastIndex,
   groupPriorClaim |->
     IF Resolves(row, map)
     THEN (key :> (GetOr0(acc.groupPriorClaim, key)
                     + ClaimUnitsOf(map[CellText(row[visitIdIdx])])))
            @@ acc.groupPriorClaim
     ELSE acc.groupPriorClaim]

\* the forEach walk that fills groupSums, groupLastIndex and groupPriorClaim
RECURSIVE GroupWalk(_, _, _, _)
GroupWalk(rows, map, i, acc) ==
  IF i > Len(rows) THEN acc
  ELSE GroupWalk(rows, map, i + 1,
         GroupStep(acc, rows[i], i, createGroupKey(rows[i]), map))

GroupAggregates(rows, map) ==
  GroupWalk(rows, map, 1,
    [groupSums |-> EmptyMap, groupLastIndex |-> EmptyMap, groupPriorClaim |-> EmptyMap])

\* ------------------------------------------------------------------ flags
\* a variant that flags "NO" whenever the billed sum does not exceed the
\* prior sum
groupPossibleAtMost(agg) ==
  [key \in DOMAIN agg.groupSums |->
     IF agg.groupSums[key] <= GetOr0(agg.groupPriorClaim, key) THEN "NO" ELSE "YES"]

\* totalSum === priorSum ? 'NO' : 'YES', priorSum being groupPriorClaim[key] || 0
groupPossible(agg) ==
  [key \in DOMAIN agg.groupSums |->
     IF agg.groupSums[key] = GetOr0(agg.groupPriorClaim, key) THEN "NO" ELSE "YES"]

\* a variant that writes the group total on every row of the group
TotalCellOnEveryRow(agg, key, index) == Num(agg.groupSums[key])

\* groupLastIndex[key] === index ? groupSums[key] : ''
TotalCell(agg, key, index) ==
  IF agg.groupLastIndex[key] = index THEN Num(agg.groupSums[key]) ELSE Str("")

\* a variant that leaves the file's cell where the Visit ID has no match
PriorClaimCellKeepingFile(row, map) ==
  IF Resolves(row, map) THEN map[CellText(row[visitIdIdx])] ELSE row[priorClaimIdx]

\* a variant that writes 0 for a Visit ID without a match
PriorClaimCellOrZero(row, map) ==
  IF Resolves(row, map) THEN map[CellText(row[visitIdIdx])] ELSE Num(0)

\* the Prior Claim cell: the looked-up Claim Units, or ''
PriorClaimCell(row, map) ==
  IF Resolves(row, map) THEN map[CellText(row[visitIdIdx])] ELSE Str("")

\* groupPossible[key] || ''
PossibleCell(possible, key) == IF key \in DOMAIN possible THEN possible[key] ELSE ""

\* a variant that reads the Possible cell the row was extracted with
ConfirmedCellFromExtractedRow(poss, row) ==
  IF CellText(row[possibleIdx]) # "NO" /\ CellText(row[possibleIdx]) # ""
  THEN "Review" ELSE ""

\* Confirmed, from the Possible value just written to the row
ConfirmedCell(poss, row) == IF poss # "NO" /\ poss # "" THEN "Review" ELSE ""

\* a variant that also writes the parsed Billable Units back to the row
RowWithParsedUnits(row, total, prior, poss) ==
  [c \in 1..Len(row) |->
     CASE c = billableUnitsTotalIdx -> total
       [] c = priorClaimIdx -> prior
       [] c = possibleIdx -> Str(poss)
       [] c = confirmedIdx -> Str(ConfirmedCell(poss, row))
       [] c = billableUnitsIdx -> Num(UnitsOf(row[c]))
       [] OTHER -> row[c]]

\* [...row] with its four derived cells written
RowWith(row, total, prior, poss) ==
  [c \in 1..Len(row) |->
     CASE c = billableUnitsTotalIdx -> total
       [] c = priorClaimIdx -> prior
       [] c = possibleIdx -> Str(poss)
       [] c = confirmedIdx -> Str(ConfirmedCell(poss, row))
       [] OTHER -> row[c]]

\* the callback of sortedAcceptedData.map, key being createGroupKey(row)
newRow(row, index, key, map, agg, possible) ==
  RowWith(row, TotalCell(agg, key, index), PriorClaimCell(row, map),
          PossibleCell(possible, key))

AnnotateRows(rows, map, agg, possible) ==
  [index \in 1..Len(rows) |->
     newRow(rows[index], index, createGroupKey(rows[index]), map, agg, possible)]
AnnotateGroups(rows, map, agg) == AnnotateRows(rows, map, agg, groupPossible(agg))

processedAcceptedData(sortedAcceptedData, map) ==
  AnnotateGroups(sortedAcceptedData, map, GroupAggregates(sortedAcceptedData, map))

\* ------------------------------------------------------ investigation tab
investigationHeaders == EVV_ACCEPTED_COLUMNS \o investigationExtraColumns

\* a variant that tests the Billable Units cell as it stands, unparsed
InvestigationFilterOnRawUnits(row) ==
  row[confirmedIdx] = Str("Review") /\ row[billableUnitsIdx] # Num(0)

\* a variant that keeps every row under review, whatever its units
InvestigationFilterReviewOnly(row) == row[confirmedIdx] = Str("Review")

InvestigationFilter(row) ==
  row[confirmedIdx] = Str("Review") /\ UnitsOf(row[billableUnitsIdx]) # 0

\* [...row, '', '', '', '', '', '', '', '']
WithPlaceholders(kept) ==
  [i \in 1..Len(kept) |->
     kept[i] \o <<Str(""), Str(""), Str(""), Str(""), Str(""), Str(""), Str(""), Str("")>>]
filteredInvestigationData(processed) ==
  WithPlaceholders(SelectSeq(processed, InvestigationFilter))

\* a variant that sizes the header rows by the accepted tab's headers
emptyRowOfAcceptedWidth == [i \in 1..Len(EVV_ACCEPTED_COLUMNS) |-> Str("")]

\* a report row: its cells and the _isGroupHeader tag ("none" on data rows)
emptyRow == [i \in 1..Len(investigationHeaders) |-> Str("")]
HeaderRow(kind, label) ==
  [cells |-> [emptyRow EXCEPT ![1] = Str(label)], isGroupHeader |-> kind]
DataRow(row) == [cells |-> row, isGroupHeader |-> "none"]

\* the payer header pushed when the Payer Name differs from the tracked one
PayerHeader(payerName, currentPayerName) ==
  IF payerName # currentPayerName THEN <<HeaderRow("payer", payerName)>> ELSE << >>

\* the medicaid header pushed when the Medicaid ID differs from the tracked
\* one, which a change of payer has just reset to ''
MedicaidHeader(payerName, medicaidId, currentPayerName, currentMedicaidId) ==
  IF medicaidId # (IF payerName # currentPayerName THEN "" ELSE currentMedicaidId)
  THEN <<HeaderRow("medicaid", "Medicaid ID: " \o medicaidId)>>
  ELSE << >>

\* what one turn of the forEach pushes
PushedFor(row, payerName, medicaidId, currentPayerName, currentMedicaidId) ==
  PayerHeader(payerName, currentPayerName)
    \o MedicaidHeader(payerName, medicaidId, currentPayerName, currentMedicaidId)
    \o <<DataRow(row)>>

\* the forEach that interleaves group-header rows and data rows
RECURSIVE InsertHeaders(_, _, _, _, _)
InsertHeaders(rows, i, currentPayerName, currentMedicaidId, out) ==
  IF i > Len(rows) THEN out
  ELSE InsertHeaders(rows, i + 1,
         CellText(rows[i][payerNameIdx]), CellText(rows[i][medicaidIdIdx]),
         out \o PushedFor(rows[i], CellText(rows[i][payerNameIdx]),
                          CellText(rows[i][medicaidIdIdx]),
                          currentPayerName, currentMedicaidId))

claimsForInvestigation(sortedInvestigationData) ==
  InsertHeaders(sortedInvestigationData, 1, "", "", << >>)

\* the three tabs handed to setProcessedTabs
Tabs(accepted, claim, processed, investigation) ==
  << [id |-> "accepted", title |-> "Accepted_Visits",
      headers |-> accepted.headers, data |-> processed],
     [id |-> "claim", title |-> "Claim_Search",
      headers |-> claim.headers, data |-> claim.data],
     [id |-> "investigation", title |-> "CLAIMS FOR INVESTIGATION",
      headers |-> investigationHeaders, data |-> investigation] >>

\* every result the synchronous part of handleProcessFiles can produce
OutcomesOfProcessed(accepted, claim, processed) ==
  {Tabs(accepted, claim, processed, claimsForInvestigation(sortedInvestigationData)) :
     sortedInvestigationData \in
       SortOutcomes("investigation", filteredInvestigationData(processed))}
OutcomesWithMap(accepted, claim, map) ==
  UNION {OutcomesOfProcessed(accepted, claim, processedAcceptedData(sortedAcceptedData, map)) :
           sortedAcceptedData \in SortOutcomes("accepted", accepted.data)}
ProcessOutcomes(accepted, claim) ==
  OutcomesWithMap(accepted, claim, claimUnitsMap(claim.data))

\* ------------------------------------------------------------------ state
VARIABLES
  evvAcceptedFile,   \* useState<File | null>
  evvClaimFile,      \* useState<File | null>
  processedTabs,     \* useState<TabData[] | null>; << >> is null
  isProcessing,      \* useState(false)
  run,               \* the invocation of handleProcessFiles in flight
  alerts,            \* number of alert() calls so far
  extraction         \* one call of extractExcelData on its own (SpecExtract)

vars == <<evvAcceptedFile, evvClaimFile, processedTabs, isProcessing, run, alerts, extraction>>

Null == << >>

NoExtraction == [file |-> NoFile, columns |-> << >>, called |-> FALSE,
                 sheetjs |-> NoPromise, exceljs |-> NoPromise]

NoRun == [active |-> FALSE, accepted |-> NoFile, claim |-> NoFile,
          acceptedPromise |-> NoPromise, claimPromise |-> NoPromise]

Init ==
  /\ evvAcceptedFile = NoFile
  /\ evvClaimFile = NoFile
  /\ processedTabs = Null
  /\ isProcessing = FALSE
  /\ run = NoRun
  /\ alerts = 0
  /\ extraction = NoExtraction

\* handleDrop / handleFileChange of the first upload box
setEvvAcceptedFile ==
  /\ \E f \in AcceptedChoices : evvAcceptedFile' = f
  /\ UNCHANGED <<evvClaimFile, processedTabs, isProcessing, run, alerts, extraction>>

\* handleDrop / handleFileChange of the second upload box
setEvvClaimFile ==
  /\ \E f \in ClaimChoices : evvClaimFile' = f
  /\ UNCHANGED <<evvAcceptedFile, processedTabs, isProcessing, run, alerts, extraction>>

\* the remove button of an upload box: setFile(null)
removeAcceptedFile ==
  /\ evvAcceptedFile # NoFile
  /\ evvAcceptedFile' = NoFile
  /\ UNCHANGED <<evvClaimFile, processedTabs, isProcessing, run, alerts, extraction>>

removeClaimFile ==
  /\ evvClaimFile # NoFile
  /\ evvClaimFile' = NoFile
  /\ UNCHANGED <<evvAcceptedFile, processedTabs, isProcessing, run, alerts, extraction>>

\* onClose of the result view: setProcessedTabs(null)
closeResults ==
  /\ processedTabs # Null
  /\ processedTabs' = Null
  /\ UNCHANGED <<evvAcceptedFile, evvClaimFile, isProcessing, run, alerts, extraction>>

\* a variant whose button stays enabled while a run is in flight
handleProcessFilesWhileProcessing ==
  /\ alerts < MaxAlerts
  /\ IF evvAcceptedFile = NoFile \/ evvClaimFile = NoFile
     THEN UNCHANGED vars
     ELSE /\ isProcessing' = TRUE
          /\ run' = [active |-> TRUE, accepted |-> evvAcceptedFile, claim |-> evvClaimFile,
                     acceptedPromise |-> Pending, claimPromise |-> Pending]
          /\ UNCHANGED <<evvAcceptedFile, evvClaimFile, processedTabs, alerts, extraction>>

\* handleProcessFiles up to its await, triggered while no run is in flight
\* (the Process button is disabled while isProcessing): with a file missing
\* it returns at once, otherwise it starts a run on the two selected files
handleProcessFiles ==
  /\ ~isProcessing
  /\ alerts < MaxAlerts
  /\ IF evvAcceptedFile = NoFile \/ evvClaimFile = NoFile
     THEN UNCHANGED vars
     ELSE /\ isProcessing' = TRUE
          /\ run' = [active |-> TRUE, accepted |-> evvAcceptedFile, claim |-> evvClaimFile,
                     acceptedPromise |-> Pending, claimPromise |-> Pending]
          /\ UNCHANGED <<evvAcceptedFile, evvClaimFile, processedTabs, alerts, extraction>>

\* extractExcelData(evvAcceptedFile, EVV_ACCEPTED_COLUMNS) settles
acceptedExtractionSettles ==
  /\ run.acceptedPromise.status = "pending"
  /\ run' = [run EXCEPT !.acceptedPromise = extractExcelData(run.accepted, EVV_ACCEPTED_COLUMNS)]
  /\ UNCHANGED <<evvAcceptedFile, evvClaimFile, processedTabs, isProcessing, alerts, extraction>>

\* extractExcelData(evvClaimFile, EVV_CLAIM_COLUMNS) settles
claimExtractionSettles ==
  /\ run.claimPromise.status = "pending"
  /\ run' = [run EXCEPT !.claimPromise = extractExcelData(run.claim, EVV_CLAIM_COLUMNS)]
  /\ UNCHANGED <<evvAcceptedFile, evvClaimFile, processedTabs, isProcessing, alerts, extraction>>

\* what Promise.all hands to the rest of the try block
acceptedResult == run.acceptedPromise
claimResult == run.claimPromise

\* a variant whose lookup map outlives the run: the entries of the run
\* before stay where this run's claim file does not overwrite them
processSucceedsKeepingEarlierMap ==
  /\ run.active
  /\ acceptedResult.status = "fulfilled" /\ claimResult.status = "fulfilled"
  /\ \E tabs \in OutcomesWithMap(acceptedResult, claimResult,
                    claimUnitsMap(claimResult.data)
                      @@ (IF processedTabs = Null THEN EmptyMap
                          ELSE claimUnitsMap(processedTabs[2].data))) :
       processedTabs' = tabs
  /\ isProcessing' = FALSE
  /\ run' = [run EXCEPT !.active = FALSE]
  /\ UNCHANGED <<evvAcceptedFile, evvClaimFile, alerts, extraction>>

\* a variant that does not join: the rest of the try block runs as soon as
\* the accepted file is extracted, on whatever the claim extraction holds
processSucceedsWithoutJoin ==
  /\ run.active
  /\ acceptedResult.status = "fulfilled" /\ claimResult.status # "rejected"
  /\ \E tabs \in ProcessOutcomes(acceptedResult, claimResult) : processedTabs' = tabs
  /\ isProcessing' = FALSE
  /\ run' = [run EXCEPT !.active = FALSE]
  /\ UNCHANGED <<evvAcceptedFile, evvClaimFile, alerts, extraction>>

\* Promise.all fulfilled: the rest of the try block, then finally
processSucceeds ==
  /\ run.active
  /\ acceptedResult.status = "fulfilled" /\ claimResult.status = "fulfilled"
  /\ \E tabs \in ProcessOutcomes(acceptedResult, claimResult) : processedTabs' = tabs
  /\ isProcessing' = FALSE
  /\ run' = [run EXCEPT !.active = FALSE]
  /\ UNCHANGED <<evvAcceptedFile, evvClaimFile, alerts, extraction>>

\* a variant whose catch also clears the tabs on display
processFailsClearingTabs ==
  /\ run.active
  /\ acceptedResult.status = "rejected" \/ claimResult.status = "rejected"
  /\ alerts' = alerts + 1
  /\ isProcessing' = FALSE
  /\ processedTabs' = Null
  /\ run' = [run EXCEPT !.active = FALSE]
  /\ UNCHANGED <<evvAcceptedFile, evvClaimFile, extraction>>

\* Promise.all rejected (by the first rejection): catch, then finally
processFails ==
  /\ run.active
  /\ acceptedResult.status = "rejected" \/ claimResult.status = "rejected"
  /\ alerts' = alerts + 1
  /\ isProcessing' = FALSE
  /\ run' = [run EXCEPT !.active = FALSE]
  /\ UNCHANGED <<evvAcceptedFile, evvClaimFile, processedTabs, extraction>>

Next ==
  \/ setEvvAcceptedFile
  \/ setEvvClaimFile
  \/ removeAcceptedFile
  \/ removeClaimFile
  \/ closeResults
  \/ handleProcessFiles
  \/ acceptedExtractionSettles
  \/ claimExtractionSettles
  \/ processSucceeds
  \/ processFails

Spec == Init /\ [][Next]_vars

\* the extractions and the tabs of the selectable files, tabulated: TLC
\* evaluates ENABLED without caching, so the fairness conditions below read
\* the results of extractExcelData and of the try block from these tables
ExtractionTable ==
  [f \in AcceptedChoices \cup ClaimChoices |->
     [accepted |-> extractExcelData(f, EVV_ACCEPTED_COLUMNS),
      claim |-> extractExcelData(f, EVV_CLAIM_COLUMNS)]]
OutcomeTable ==
  [a \in AcceptedChoices, c \in ClaimChoices |->
     IF /\ ExtractionTable[a].accepted.status = "fulfilled"
        /\ ExtractionTable[c].claim.status = "fulfilled"
     THEN ProcessOutcomes(ExtractionTable[a].accepted, ExtractionTable[c].claim)
     ELSE {}]

\* acceptedExtractionSettles, claimExtractionSettles and processSucceeds on
\* the selectable files, with their results read from the tables
acceptedExtractionSettlesTabulated ==
  /\ run.acceptedPromise.status = "pending"
  /\ run' = [run EXCEPT !.acceptedPromise = ExtractionTable[run.accepted].accepted]
  /\ UNCHANGED <<evvAcceptedFile, evvClaimFile, processedTabs, isProcessing, alerts, extraction>>
claimExtractionSettlesTabulated ==
  /\ run.claimPromise.status = "pending"
  /\ run' = [run EXCEPT !.claimPromise = ExtractionTable[run.claim].claim]
  /\ UNCHANGED <<evvAcceptedFile, evvClaimFile, processedTabs, isProcessing, alerts, extraction>>
processSucceedsTabulated ==
  /\ run.active
  /\ acceptedResult.status = "fulfilled" /\ claimResult.status = "fulfilled"
  /\ \E tabs \in OutcomeTable[run.accepted, run.claim] : processedTabs' = tabs
  /\ isProcessing' = FALSE
  /\ run' = [run EXCEPT !.active = FALSE]
  /\ UNCHANGED <<evvAcceptedFile, evvClaimFile, alerts, extraction>>

\* the page under the scheduling of the event loop: a file read that has
\* been started settles, and the continuation of a settled Promise.all runs
\* (try, or catch with its alert dismissed, then finally)
SpecFair ==
  /\ Spec
  /\ WF_vars(acceptedExtractionSettlesTabulated)
  /\ WF_vars(claimExtractionSettlesTabulated)
  /\ WF_vars(processSucceedsTabulated)
  /\ WF_vars(processFails)

\* ---------------------------------------------- one run on bounded inputs
\* the page with two files chosen from the bounded input sets, and the
\* first processing run on them
InitPipeline ==
  /\ evvAcceptedFile \in AcceptedFiles
  /\ evvClaimFile \in ClaimFiles
  /\ processedTabs = Null
  /\ isProcessing = FALSE
  /\ run = NoRun
  /\ alerts = 0
  /\ extraction = NoExtraction

firstProcessFiles == processedTabs = Null /\ alerts = 0 /\ handleProcessFiles

NextPipeline ==
  \/ firstProcessFiles
  \/ acceptedExtractionSettles
  \/ claimExtractionSettles
  \/ processSucceeds
  \/ processFails

SpecPipeline == InitPipeline /\ [][NextPipeline]_vars

\* ------------------------------------------- one extraction on its own
\* sheets as sheet_to_json returns them: every row as wide as the header row
HeaderCellPool == {Str("Visit ID"), Str(" Visit ID "), Str("visit id"), Str("")}
DataCellPool == {Str("v1"), Str("")}
ExtractColumns == { << >>, <<"Visit ID">>, <<"Visit ID", "visit id">> }

ExtractSheets ==
  {<< >>} \cup
  UNION { {<<hdr>> \o rows : hdr \in [1..w -> HeaderCellPool],
                             rows \in SeqsUpTo([1..w -> DataCellPool], MaxDataRows)}
          : w \in 0..MaxHeaderCells }

ExtractFiles == {Workbook(<<sheet>>) : sheet \in ExtractSheets} \cup {NoSheetFile, Unreadable}

InitExtract ==
  /\ evvAcceptedFile = NoFile
  /\ evvClaimFile = NoFile
  /\ processedTabs = Null
  /\ isProcessing = FALSE
  /\ run = NoRun
  /\ alerts = 0
  /\ \E f \in ExtractFiles, c \in ExtractColumns :
       extraction = [NoExtraction EXCEPT !.file = f, !.columns = c]

\* extractExcelData(file, columns), by the page of either version
callExtractExcelData ==
  /\ ~extraction.called
  /\ extraction' = [extraction EXCEPT
                      !.called = TRUE,
                      !.sheetjs = extractExcelData(extraction.file, extraction.columns),
                      !.exceljs = extractExcelDataExcelJS(extraction.file, extraction.columns)]
  /\ UNCHANGED <<evvAcceptedFile, evvClaimFile, processedTabs, isProcessing, run, alerts>>

NextExtract == callExtractExcelData

SpecExtract == InitExtract /\ [][NextExtract]_vars

\* ------------------------------------------------------------- properties
\* the three tabs on display
acceptedTab == processedTabs[1].data
claimTab == processedTabs[2].data
investigationTab == processedTabs[3].data

MaxOf(S) == CHOOSE x \in S : \A y \in S : y <= x

RECURSIVE SumOver(_, _)
SumOver(f, S) ==
  IF S = {} THEN 0
  ELSE LET x == CHOOSE x \in S : TRUE IN f[x] + SumOver(f, S \ {x})

\* the positions of the rows that share the Group Key of row i
GroupOf(rows, i) ==
  {j \in 1..Len(rows) : createGroupKey(rows[j]) = createGroupKey(rows[i])}

\* the parsed Billable Units of every row
BillableUnitsOf(rows) == [j \in 1..Len(rows) |-> UnitsOf(rows[j][billableUnitsIdx])]

\* the claim rows that carry the Visit ID of an accepted row
ClaimMatches(claims, row) ==
  {k \in 1..Len(claims) :
     /\ CellText(row[visitIdIdx]) # ""
     /\ CellText(claims[k][claimVisitIdIdx]) = CellText(row[visitIdIdx])}

\* what every row adds to its group's Prior-Claim sum: the parsed Claim Units
\* of the last claim row with its Visit ID, 0 when there is none
PriorUnitsOf(rows, claims) ==
  [j \in 1..Len(rows) |->
     IF ClaimMatches(claims, rows[j]) = {} THEN 0
     ELSE ClaimUnitsOf(claims[MaxOf(ClaimMatches(claims, rows[j]))][claimUnitsIdx])]

\* C1: in the accepted tab the row with the highest index of every Group Key
\* carries the sum of the parsed Billable Units of all rows with that key in
\* 'Billable Units Total'; every other row of the group carries ''.
C1_TotalOnLastRowOfGroup ==
  processedTabs # Null =>
    LET rows == acceptedTab
        units == BillableUnitsOf(rows)
    IN \A i \in 1..Len(rows) :
         LET G == GroupOf(rows, i)
         IN rows[i][billableUnitsTotalIdx] =
              IF i = MaxOf(G) THEN Num(SumOver(units, G)) ELSE Str("")

\* C1 witness: a group of two or more rows, its total on the last row only,
\* next to a row of another group.
C1_Witness ==
  /\ processedTabs # Null
  /\ \E i, j, k \in 1..Len(acceptedTab) :
       /\ i < j /\ j = MaxOf(GroupOf(acceptedTab, i))
       /\ k \notin GroupOf(acceptedTab, i)
       /\ acceptedTab[i][billableUnitsTotalIdx] = Str("")
       /\ acceptedTab[j][billableUnitsTotalIdx] = Num(5)

\* C2: every row's Possible is "NO" when its group's Billable Units sum equals
\* the group's Prior-Claim sum (looked-up Claim Units of the rows whose Visit
\* ID resolves, 0 for the others) and "YES" otherwise; so all rows of a group
\* carry the same Possible.
C2_PossibleNoIffSumsEqual ==
  processedTabs # Null =>
    LET rows == acceptedTab
        units == BillableUnitsOf(rows)
        prior == PriorUnitsOf(rows, claimTab)
    IN \A i \in 1..Len(rows) :
         LET G == GroupOf(rows, i)
         IN rows[i][possibleIdx] =
              Str(IF SumOver(units, G) = SumOver(prior, G) THEN "NO" ELSE "YES")

\* C2 witness: a group of two rows flagged "NO" with a non-zero Prior-Claim
\* sum, and another group flagged "YES" whose Billable Units sum is below
\* its Prior-Claim sum.
C2_Witness ==
  /\ processedTabs # Null
  /\ LET rows == acceptedTab
         units == BillableUnitsOf(rows)
         prior == PriorUnitsOf(rows, claimTab)
     IN \E i, j, k \in 1..Len(rows) :
          /\ i # j /\ j \in GroupOf(rows, i)
          /\ rows[i][possibleIdx] = Str("NO") /\ SumOver(prior, GroupOf(rows, i)) > 0
          /\ rows[k][possibleIdx] = Str("YES")
          /\ SumOver(units, GroupOf(rows, k)) < SumOver(prior, GroupOf(rows, k))

\* the cells of the data rows (not group-header rows) of a report, in order
IsDataRow(r) == r.isGroupHeader = "none"
DataRowsOf(tab) ==
  LET kept == SelectSeq(tab, IsDataRow) IN [i \in 1..Len(kept) |-> kept[i].cells]

Count(seq, x) == Cardinality({i \in 1..Len(seq) : seq[i] = x})
Placeholders == [i \in 1..Len(investigationExtraColumns) |-> Str("")]

\* Confirmed is "Review" and the parsed Billable Units are not 0
Qualifies(row) ==
  row[confirmedIdx] = Str("Review") /\ UnitsOf(row[billableUnitsIdx]) # 0

\* C3: the data rows of the investigation tab are exactly the accepted-tab
\* rows with Confirmed "Review" and non-zero parsed Billable Units, each once
\* and extended by the 8 empty placeholder cells; no data row breaks either
\* condition.
C3_InvestigationRowsAreTheReviewRows ==
  processedTabs # Null =>
    LET rows == acceptedTab
        data == DataRowsOf(investigationTab)
        width == Len(EVV_ACCEPTED_COLUMNS)
    IN /\ Len(Placeholders) = 8
       /\ \A i \in 1..Len(data) :
            /\ Len(data[i]) = width + 8
            /\ Qualifies(SubSeq(data[i], 1, width))
            /\ SubSeq(data[i], width + 1, width + 8) = Placeholders
            /\ \E j \in 1..Len(rows) : rows[j] = SubSeq(data[i], 1, width)
       /\ \A j \in 1..Len(rows) :
            Count(data, rows[j] \o Placeholders) =
              IF Qualifies(rows[j]) THEN Count(rows, rows[j]) ELSE 0

\* C3 witness: an accepted tab with a row that is reported and a "Review"
\* row with zero units that is not.
C3_Witness ==
  /\ processedTabs # Null
  /\ \E i, j \in 1..Len(acceptedTab) :
       /\ Qualifies(acceptedTab[i])
       /\ Count(DataRowsOf(investigationTab), acceptedTab[i] \o Placeholders) = 1
       /\ acceptedTab[j][confirmedIdx] = Str("Review")
       /\ UnitsOf(acceptedTab[j][billableUnitsIdx]) = 0
       /\ Count(DataRowsOf(investigationTab), acceptedTab[j] \o Placeholders) = 0

\* C4: in the investigation tab a payer header row (first cell = the Payer
\* Name) stands before the first data row of every maximal run of data rows
\* with one Payer Name, no data row in between, and a medicaid header row
\* (first cell = "Medicaid ID: <id>") stands immediately before the first
\* data row of every maximal run with one Medicaid ID inside a payer block,
\* empty Payer Names and Medicaid IDs included.
C4_HeaderBeforeEveryRun ==
  processedTabs # Null =>
    LET tab == investigationTab
        isData(k) == IsDataRow(tab[k])
        payer(k) == CellText(tab[k].cells[payerNameIdx])
        medicaid(k) == CellText(tab[k].cells[medicaidIdIdx])
        earlier(k) == {j \in 1..(k - 1) : isData(j)}
        startsPayerRun(k) ==
          isData(k) /\ (earlier(k) = {} \/ payer(MaxOf(earlier(k))) # payer(k))
        startsMedicaidRun(k) ==
          isData(k) /\ (startsPayerRun(k) \/ medicaid(MaxOf(earlier(k))) # medicaid(k))
    IN \A k \in 1..Len(tab) :
         /\ startsPayerRun(k) =>
              \E h \in 1..(k - 1) :
                /\ tab[h].isGroupHeader = "payer"
                /\ tab[h].cells[1] = Str(payer(k))
                /\ \A j \in h..(k - 1) : ~isData(j)
         /\ startsMedicaidRun(k) =>
              /\ k > 1
              /\ tab[k - 1].isGroupHeader = "medicaid"
              /\ tab[k - 1].cells[1] = Str("Medicaid ID: " \o medicaid(k))

\* C5: in every row of the accepted tab Confirmed is "Review" when the row's
\* own (final, group-level) Possible is neither '' nor "NO", and '' otherwise.
C5_ConfirmedFollowsPossible ==
  processedTabs # Null =>
    \A i \in 1..Len(acceptedTab) :
      acceptedTab[i][confirmedIdx] =
        IF acceptedTab[i][possibleIdx] \notin {Str(""), Str("NO")}
        THEN Str("Review") ELSE Str("")

\* C5 witness: a "YES" row under review next to a "NO" row that is not, the
\* latter extracted with "Review" already in its Possible column.
C5_Witness ==
  /\ processedTabs # Null
  /\ \E i, j \in 1..Len(acceptedTab) :
       /\ acceptedTab[i][possibleIdx] = Str("YES")
       /\ acceptedTab[i][confirmedIdx] = Str("Review")
       /\ acceptedTab[j][possibleIdx] = Str("NO")
       /\ acceptedTab[j][confirmedIdx] = Str("")
       /\ \E k \in 1..Len(run.acceptedPromise.data) :
            /\ run.acceptedPromise.data[k][possibleIdx] = Str("Review")
            /\ run.acceptedPromise.data[k][visitDateIdx] = acceptedTab[j][visitDateIdx]

\* C6: the 'Prior Claim' cell of an accepted row holds what the Claim Lookup
\* Map stores for the row's Visit ID when a claim row carries that Visit ID,
\* and '' otherwise; a group of rows without any match has a Prior-Claim sum
\* of 0 (it is flagged "NO" exactly when its Billable Units sum is 0).
C6_PriorClaimCellFromMap ==
  processedTabs # Null =>
    LET rows == acceptedTab
        claims == claimTab
        units == BillableUnitsOf(rows)
        matched(j) == ClaimMatches(claims, rows[j]) # {}
    IN \A i \in 1..Len(rows) :
         /\ rows[i][priorClaimIdx] =
              IF matched(i) THEN claimUnitsMap(claims)[CellText(rows[i][visitIdIdx])]
              ELSE Str("")
         /\ (\A j \in GroupOf(rows, i) : ~matched(j)) =>
              (rows[i][possibleIdx] = Str("NO") <=> SumOver(units, GroupOf(rows, i)) = 0)

\* C6 witness: a finished run with claim rows, one accepted row whose Visit
\* ID has a match and one, with billed units, whose Visit ID has none.
C6_Witness ==
  /\ processedTabs # Null
  /\ Len(claimTab) > 0
  /\ \E i, j \in 1..Len(acceptedTab) :
       /\ ClaimMatches(claimTab, acceptedTab[i]) # {}
       /\ acceptedTab[i][priorClaimIdx] = Num(5)
       /\ ClaimMatches(claimTab, acceptedTab[j]) = {}
       /\ CellText(acceptedTab[j][visitIdIdx]) # ""
       /\ acceptedTab[j][priorClaimIdx] = Str("")
       /\ acceptedTab[j][possibleIdx] = Str("YES")

\* C7: when several claim rows carry one non-empty Visit ID, the Claim Lookup
\* Map holds the Claim Units of the last of them in file order, and that
\* value is the 'Prior Claim' cell of the accepted rows with the Visit ID and
\* their contribution to the group Prior-Claim sum.
C7_LastClaimRowWins ==
  processedTabs # Null =>
    LET rows == acceptedTab
        claims == claimTab
        units == BillableUnitsOf(rows)
        prior == PriorUnitsOf(rows, claims)
        visitId(k) == CellText(claims[k][claimVisitIdIdx])
        repeated == {k \in 1..Len(claims) :
                       visitId(k) # "" /\ \E m \in 1..Len(claims) : m # k /\ visitId(m) = visitId(k)}
        last(k) == MaxOf({m \in 1..Len(claims) : visitId(m) = visitId(k)})
    IN \A k \in repeated :
         /\ claimUnitsMap(claims)[visitId(k)] = claims[last(k)][claimUnitsIdx]
         /\ \A i \in 1..Len(rows) :
              CellText(rows[i][visitIdIdx]) = visitId(k) =>
                /\ rows[i][priorClaimIdx] = claims[last(k)][claimUnitsIdx]
                /\ rows[i][possibleIdx] = Str("NO") <=>
                     SumOver(units, GroupOf(rows, i)) = SumOver(prior, GroupOf(rows, i))

\* C7 witness: two claim rows with one Visit ID and different Claim Units, the
\* last one's units in the 'Prior Claim' cell of an accepted row, whose group
\* is flagged "NO" because of them.
C7_Witness ==
  /\ processedTabs # Null
  /\ Len(claimTab) = 2
  /\ CellText(claimTab[1][claimVisitIdIdx]) = CellText(claimTab[2][claimVisitIdIdx])
  /\ claimTab[1][claimUnitsIdx] = Str("n/a")
  /\ claimTab[2][claimUnitsIdx] = Num(5)
  /\ \E i \in 1..Len(acceptedTab) :
       /\ CellText(acceptedTab[i][visitIdIdx]) = CellText(claimTab[2][claimVisitIdIdx])
       /\ acceptedTab[i][priorClaimIdx] = Num(5)
       /\ acceptedTab[i][possibleIdx] = Str("NO")

\* the rows handed to the sort: what the accepted file's extraction returned
extractedAccepted == run.acceptedPromise.data

AllDatesValid(rows) == \A j \in 1..Len(rows) : ~IsNaN(TimeOf(rows[j][visitDateIdx]))

\* ascending order of two rows: Payer Name without case, then Medicaid ID,
\* then Visit Date; the first key that differs decides
SortsBefore(a, b) ==
  LET payerA == ToLowerCase(CellText(a[payerNameIdx]))
      payerB == ToLowerCase(CellText(b[payerNameIdx]))
      medicaidA == CellText(a[medicaidIdIdx])
      medicaidB == CellText(b[medicaidIdIdx])
  IN \/ LocaleCompare(payerA, payerB) < 0
     \/ /\ payerA = payerB
        /\ \/ LocaleCompare(medicaidA, medicaidB) < 0
           \/ /\ medicaidA = medicaidB
              /\ TimeOf(a[visitDateIdx]).n < TimeOf(b[visitDateIdx]).n

TiesWith(a, b) == ~SortsBefore(a, b) /\ ~SortsBefore(b, a)

\* an accepted-tab row is the extracted row, but for its four derived columns
AnnotatedFrom(out, in) ==
  /\ Len(out) = Len(in)
  /\ \A c \in 1..Len(in) :
       c \notin {billableUnitsTotalIdx, priorClaimIdx, possibleIdx, confirmedIdx}
         => out[c] = in[c]

\* C8: when every Visit Date is valid, the accepted tab is a permutation of
\* the extracted rows in ascending order of (Payer Name without case,
\* Medicaid ID, Visit Date), and rows that tie on all three keep their file
\* order.
C8_StableSortByPayerMedicaidDate ==
  (processedTabs # Null /\ AllDatesValid(extractedAccepted)) =>
    LET input == extractedAccepted
        rows == acceptedTab
        n == Len(input)
    IN /\ Len(rows) = n
       /\ \E p \in Permutations(1..n) :
            /\ \A i \in 1..n : AnnotatedFrom(rows[i], input[p[i]])
            /\ \A i, j \in 1..n :
                 i < j => /\ ~SortsBefore(input[p[j]], input[p[i]])
                          /\ TiesWith(input[p[i]], input[p[j]]) => p[i] < p[j]

\* C8 witness: a file with valid dates in which a later row sorts before an
\* earlier one and two different rows tie on all three keys.
C8_Witness ==
  /\ processedTabs # Null
  /\ AllDatesValid(extractedAccepted)
  /\ \E i, j, k, m \in 1..Len(extractedAccepted) :
       /\ i < j /\ SortsBefore(extractedAccepted[j], extractedAccepted[i])
       /\ k < m /\ TiesWith(extractedAccepted[k], extractedAccepted[m])
       /\ extractedAccepted[k] # extractedAccepted[m]

AnyRejected(r) ==
  r.acceptedPromise.status = "rejected" \/ r.claimPromise.status = "rejected"

\* C9: a run in which either extraction has failed ends as a failure
\* whatever the other extraction did and whenever it settled: that step
\* leaves processedTabs as it is, raises one alert and resets isProcessing;
\* tabs are only ever set by a run both of whose extractions succeeded, and
\* an alert is only ever raised, once, by the end of a run.
C9_FailedExtractionAbortsRun ==
  [][ /\ (run.active /\ ~run'.active /\ AnyRejected(run)) =>
           /\ processedTabs' = processedTabs
           /\ alerts' = alerts + 1
           /\ isProcessing /\ ~isProcessing'
      /\ (processedTabs' # processedTabs /\ processedTabs' # Null) =>
           /\ run.active /\ ~run'.active
           /\ extractExcelData(run.accepted, EVV_ACCEPTED_COLUMNS).status = "fulfilled"
           /\ extractExcelData(run.claim, EVV_CLAIM_COLUMNS).status = "fulfilled"
      /\ alerts' # alerts =>
           run.active /\ ~run'.active /\ alerts' = alerts + 1
    ]_vars

\* C9 witness: a run ended in failure with the accepted file extracted and
\* the claim file rejected, the tabs of the run before it still on display.
C9_Witness ==
  /\ ~run.active /\ ~isProcessing
  /\ alerts = 1
  /\ run.acceptedPromise.status = "fulfilled"
  /\ Len(run.acceptedPromise.data) > 0
  /\ run.claimPromise.status = "rejected"
  /\ processedTabs # Null

\* C10: extraction fails, returning no headers and no rows, when the workbook
\* has no sheet or its first sheet has zero rows - in both versions of the page.
C10_NoSheetOrNoRowsIsAnError ==
  (/\ extraction.called
   /\ extraction.file.kind = "workbook"
   /\ \/ Len(extraction.file.sheets) = 0
      \/ Len(extraction.file.sheets[1]) = 0)
  => /\ extraction.sheetjs.status = "rejected"
     /\ extraction.exceljs.status = "rejected"

\* the sheet handed to the one extraction, and its header row as written
extractedSheet == extraction.file.sheets[1]
HasRows(file) ==
  file.kind = "workbook" /\ Len(file.sheets) > 0 /\ Len(file.sheets[1]) > 0

\* C11: for a non-empty requested column list H and a file whose first row
\* equals H, extraction succeeds with headers H and one data row per file
\* row after the first, in file order, each equal to the file's row.
C11_FirstRowEqualToRequestYieldsFile ==
  (/\ extraction.called
   /\ Len(extraction.columns) > 0
   /\ HasRows(extraction.file)
   /\ extractedSheet[1] = HeaderCells(extraction.columns))
  => /\ extraction.sheetjs.status = "fulfilled"
     /\ extraction.sheetjs.headers = extraction.columns
     /\ Len(extraction.sheetjs.data) = Len(extractedSheet) - 1
     /\ \A i \in 1..(Len(extractedSheet) - 1) :
          extraction.sheetjs.data[i] = extractedSheet[i + 1]

\* C11 witness: a two-column request on a file with those headers and two
\* different data rows, returned as they stand.
C11_Witness ==
  /\ extraction.called
  /\ extraction.columns = <<"Visit ID", "visit id">>
  /\ HasRows(extraction.file)
  /\ extractedSheet[1] = HeaderCells(extraction.columns)
  /\ extraction.sheetjs.data = << <<Str("v1"), Str("")>>, <<Str(""), Str("v1")>> >>

\* the positions of the header row whose cell is, as written, the name
WrittenAs(name) ==
  {k \in 1..Len(extractedSheet[1]) : JSString(extractedSheet[1][k]) = name}

\* C12: a requested column whose name is not written in the file's header
\* row does not fail the extraction: the name stays in the returned headers
\* at its position and its cell is '' in every returned row, while a
\* requested column whose name is written there holds the file's cells.
C12_AbsentColumnYieldsEmptyCells ==
  (extraction.called /\ HasRows(extraction.file)) =>
    /\ extraction.sheetjs.status = "fulfilled"
    /\ \A c \in 1..Len(extraction.columns) :
         /\ extraction.sheetjs.headers[c] = extraction.columns[c]
         /\ \A r \in 1..Len(extraction.sheetjs.data) :
              extraction.sheetjs.data[r][c] =
                IF WrittenAs(extraction.columns[c]) = {} THEN Str("")
                ELSE extractedSheet[r + 1][MaxOf(WrittenAs(extraction.columns[c]))]

\* the result of the one extraction by either version of the page
ExtractionBy(version) ==
  IF version = "sheetjs" THEN extraction.sheetjs ELSE extraction.exceljs

\* C16: a requested column is matched to a file column only when a cell of
\* the file's first row is, as written, exactly the requested name: a
\* requested column returns a file cell (a non-empty cell) only if its name
\* is written in the header row, in both versions of the page.
C16_HeaderMatchIsExact ==
  (extraction.called /\ HasRows(extraction.file)) =>
    \A version \in {"sheetjs", "exceljs"} :
      ExtractionBy(version).status = "fulfilled" =>
        \A c \in 1..Len(extraction.columns) :
          \A r \in 1..Len(ExtractionBy(version).data) :
            ExtractionBy(version).data[r][c] # Str("")
              => WrittenAs(extraction.columns[c]) # {}

\* C13: every row of every tab has as many cells as the tab has headers; the
\* investigation tab's headers are the accepted tab's headers followed by
\* the 8 placeholder columns; a group-header row is tagged "payer" or
\* "medicaid" and is empty after its first cell; the 8 trailing cells of a
\* data row are empty.
C13_RowsAsWideAsHeaders ==
  processedTabs # Null =>
    /\ \A i \in 1..Len(acceptedTab) : Len(acceptedTab[i]) = Len(processedTabs[1].headers)
    /\ \A i \in 1..Len(claimTab) : Len(claimTab[i]) = Len(processedTabs[2].headers)
    /\ Len(investigationExtraColumns) = 8
    /\ processedTabs[3].headers = processedTabs[1].headers \o investigationExtraColumns
    /\ \A k \in 1..Len(investigationTab) :
         /\ Len(investigationTab[k].cells) = Len(processedTabs[3].headers)
         /\ investigationTab[k].isGroupHeader \in {"none", "payer", "medicaid"}
         /\ \A c \in 1..Len(investigationTab[k].cells) :
              (IF IsDataRow(investigationTab[k])
               THEN c > Len(processedTabs[1].headers)
               ELSE c > 1)
              => investigationTab[k].cells[c] = Str("")

\* C13 witness: an investigation tab with a payer header, a medicaid header
\* and a data row, next to non-empty accepted and claim tabs.
C13_Witness ==
  /\ processedTabs # Null
  /\ Len(acceptedTab) > 1 /\ Len(claimTab) > 0
  /\ \E h, m, k \in 1..Len(investigationTab) :
       /\ investigationTab[h].isGroupHeader = "payer"
       /\ investigationTab[h].cells[1] = Str("acme")
       /\ investigationTab[m].isGroupHeader = "medicaid"
       /\ investigationTab[m].cells[1] = Str("Medicaid ID: M1")
       /\ IsDataRow(investigationTab[k])
       /\ Len(investigationTab[k].cells) = 24

\* the latest run has ended with both extractions fulfilled and its tabs are
\* on display
RunSucceeded ==
  /\ processedTabs # Null /\ ~run.active
  /\ run.acceptedPromise.status = "fulfilled"
  /\ run.claimPromise.status = "fulfilled"

\* rows are input in ascending (Payer Name, Medicaid ID, Visit Date) order,
\* ties in input order, each row unchanged outside its derived columns
SortedFrom(rows, input) ==
  /\ Len(rows) = Len(input)
  /\ \E p \in Permutations(1..Len(input)) :
       /\ \A i \in 1..Len(input) : AnnotatedFrom(rows[i], input[p[i]])
       /\ \A i, j \in 1..Len(input) :
            i < j => /\ ~SortsBefore(input[p[j]], input[p[i]])
                     /\ TiesWith(input[p[i]], input[p[j]]) => p[i] < p[j]

\* the four derived cells of every row are those of a run that has seen no
\* rows but rows and no claim rows but claims
DerivedFrom(rows, claims) ==
  \A i \in 1..Len(rows) :
    /\ rows[i][billableUnitsTotalIdx] =
         IF i = MaxOf(GroupOf(rows, i))
         THEN Num(SumOver(BillableUnitsOf(rows), GroupOf(rows, i)))
         ELSE Str("")
    /\ rows[i][priorClaimIdx] =
         IF ClaimMatches(claims, rows[i]) = {} THEN Str("")
         ELSE claims[MaxOf(ClaimMatches(claims, rows[i]))][claimUnitsIdx]
    /\ rows[i][possibleIdx] =
         Str(IF SumOver(BillableUnitsOf(rows), GroupOf(rows, i))
                = SumOver(PriorUnitsOf(rows, claims), GroupOf(rows, i))
             THEN "NO" ELSE "YES")
    /\ rows[i][confirmedIdx] =
         Str(IF rows[i][possibleIdx] = Str("NO") THEN "" ELSE "Review")

\* the data rows of the report are the qualifying rows, in order, with the
\* placeholder cells
ReportedFrom(data, kept) ==
  /\ Len(data) = Len(kept)
  /\ \A i \in 1..Len(kept) : data[i] = kept[i] \o Placeholders

\* C14: the tabs of a run are those of a first run on the two files of that
\* run, whatever runs came before: the claim tab is the claim file's rows,
\* the accepted tab is the accepted file's rows sorted and annotated from
\* the sums, last rows and claim look-ups of these files alone, and the
\* report holds its qualifying rows.
C14_TabsDependOnThisRunsFilesOnly ==
  RunSucceeded =>
    /\ claimTab = extractExcelData(run.claim, EVV_CLAIM_COLUMNS).data
    /\ SortedFrom(acceptedTab, extractExcelData(run.accepted, EVV_ACCEPTED_COLUMNS).data)
    /\ DerivedFrom(acceptedTab, claimTab)
    /\ ReportedFrom(DataRowsOf(investigationTab), SelectSeq(acceptedTab, Qualifies))

\* C14 witness: a run that succeeded on a two-row accepted file after an
\* earlier run had failed.
C14_Witness ==
  /\ RunSucceeded
  /\ alerts > 0
  /\ Len(acceptedTab) = 2
  /\ acceptedTab[2][billableUnitsTotalIdx] = Num(5)
  /\ Len(claimTab) = 1

Settled(promise) == promise.status \in {"fulfilled", "rejected"}

\* rows are the rows of input in some order, each unchanged outside its
\* derived columns
RearrangedFrom(rows, input) ==
  /\ Len(rows) = Len(input)
  /\ \E p \in Permutations(1..Len(input)) :
       \A i \in 1..Len(input) : AnnotatedFrom(rows[i], input[p[i]])

\* C15: the two extractions of a run settle in either order, each to the
\* result of its own file and without touching the other; tabs appear only
\* in a step taken when both extractions are fulfilled, and they are fixed
\* by the two files, so they are the same for both orders.
C15_StagesStartAfterBothExtractions ==
  [][ /\ (run.acceptedPromise.status = "pending" /\ Settled(run'.acceptedPromise)) =>
           /\ run'.acceptedPromise = extractExcelData(run.accepted, EVV_ACCEPTED_COLUMNS)
           /\ run'.claimPromise = run.claimPromise
           /\ processedTabs' = processedTabs
      /\ (run.claimPromise.status = "pending" /\ Settled(run'.claimPromise)) =>
           /\ run'.claimPromise = extractExcelData(run.claim, EVV_CLAIM_COLUMNS)
           /\ run'.acceptedPromise = run.acceptedPromise
           /\ processedTabs' = processedTabs
      /\ (processedTabs' # processedTabs /\ processedTabs' # Null) =>
           /\ run.active
           /\ run.acceptedPromise.status = "fulfilled"
           /\ run.claimPromise.status = "fulfilled"
           /\ processedTabs'[2].data = extractExcelData(run.claim, EVV_CLAIM_COLUMNS).data
           /\ RearrangedFrom(processedTabs'[1].data,
                             extractExcelData(run.accepted, EVV_ACCEPTED_COLUMNS).data)
           /\ DerivedFrom(processedTabs'[1].data, processedTabs'[2].data)
    ]_vars

\* C15 witness: a run whose claim extraction is fulfilled with rows while the
\* accepted extraction is still pending, and no tabs yet.
C15_Witness ==
  /\ run.active
  /\ run.acceptedPromise.status = "pending"
  /\ run.claimPromise.status = "fulfilled"
  /\ Len(run.claimPromise.data) = 2
  /\ processedTabs = Null

MinOf(S) == CHOOSE x \in S : \A y \in S : x <= y

\* the positions G do not form one block: a position outside G lies between
\* two of them
NonContiguous(G) == \E k \in (MinOf(G) + 1)..(MaxOf(G) - 1) : k \notin G

\* C17: when the rows of one Group Key form two or more separate blocks in
\* the accepted tab, every row of the key but the last row of the final
\* block has an empty 'Billable Units Total', that last row carries the sum
\* of Billable Units over all blocks, and Possible of all these rows is
\* decided by that combined sum and the combined Prior-Claim sum.
C17_SeparateBlocksShareOneTotal ==
  processedTabs # Null =>
    \A i \in 1..Len(acceptedTab) :
      NonContiguous(GroupOf(acceptedTab, i)) =>
        /\ acceptedTab[i][billableUnitsTotalIdx] =
             IF i = MaxOf(GroupOf(acceptedTab, i))
             THEN Num(SumOver(BillableUnitsOf(acceptedTab), GroupOf(acceptedTab, i)))
             ELSE Str("")
        /\ acceptedTab[i][possibleIdx] = Str("NO") <=>
             SumOver(BillableUnitsOf(acceptedTab), GroupOf(acceptedTab, i))
               = SumOver(PriorUnitsOf(acceptedTab, claimTab), GroupOf(acceptedTab, i))

\* C17 witness: two rows of one Group Key with a row of another key between
\* them; the first has no total, the last has the total 5 of both, and the
\* group is flagged "NO" against a Prior-Claim sum of 5.
C17_Witness ==
  /\ processedTabs # Null
  /\ Len(acceptedTab) = 3
  /\ createGroupKey(acceptedTab[1]) = createGroupKey(acceptedTab[3])
  /\ createGroupKey(acceptedTab[2]) # createGroupKey(acceptedTab[1])
  /\ acceptedTab[1][billableUnitsTotalIdx] = Str("")
  /\ acceptedTab[3][billableUnitsTotalIdx] = Num(5)
  /\ acceptedTab[1][possibleIdx] = Str("NO")
  /\ acceptedTab[3][possibleIdx] = Str("NO")

\* C18: when every Visit Date is valid, the rows of the accepted tab that
\* share a Group Key are contiguous.
C18_GroupRowsAreContiguous ==
  (processedTabs # Null /\ AllDatesValid(extractedAccepted)) =>
    \A i \in 1..Len(acceptedTab) : ~NonContiguous(GroupOf(acceptedTab, i))

\* C19: in the investigation tab every payer group-header row is immediately
\* followed by a medicaid group-header row.
C19_MedicaidHeaderFollowsPayerHeader ==
  processedTabs # Null =>
    \A h \in 1..Len(investigationTab) :
      investigationTab[h].isGroupHeader = "payer" =>
        /\ h < Len(investigationTab)
        /\ investigationTab[h + 1].isGroupHeader = "medicaid"

\* the rows of a file's first sheet after its header row
FileRows(file) == Tail(file.sheets[1])

\* C20: annotation changes only the four derived columns: the accepted tab
\* is the extracted accepted rows in some order, each cell outside 'Billable
\* Units Total', 'Prior Claim', 'Possible' and 'Confirmed' as extracted; the
\* claim tab is the claim file's rows in file order; the first 16 cells of
\* every investigation data row are a row of the accepted tab.
C20_OnlyDerivedColumnsChange ==
  processedTabs # Null =>
    /\ RearrangedFrom(acceptedTab, FileRows(run.accepted))
    /\ claimTab = FileRows(run.claim)
    /\ \A k \in 1..Len(investigationTab) :
         IsDataRow(investigationTab[k]) =>
           \E j \in 1..Len(acceptedTab) :
             SubSeq(investigationTab[k].cells, 1, 16) = acceptedTab[j]

\* C20 witness: a file row with text in its Billable Units and a value in
\* its derived columns and in 'Other', moved by the sort and annotated, next
\* to two claim rows and a reported row.
C20_Witness ==
  /\ processedTabs # Null
  /\ Len(claimTab) = 2
  /\ \E k \in 1..Len(investigationTab) : IsDataRow(investigationTab[k])
  /\ FileRows(run.accepted)[1][billableUnitsIdx] = Str("n/a")
  /\ FileRows(run.accepted)[1][possibleIdx] = Str("Review")
  /\ acceptedTab[1][billableUnitsIdx] # Str("n/a")
  /\ \E i \in 2..Len(acceptedTab) :
       /\ acceptedTab[i][billableUnitsIdx] = Str("n/a")
       /\ acceptedTab[i][possibleIdx] = Str("YES")
       /\ acceptedTab[i][IndexOf(EVV_ACCEPTED_COLUMNS, "Other")] = Str("Review")

\* rows with '' in the four derived columns, all else as it stands
BlankDerived(rows) ==
  [i \in 1..Len(rows) |->
     [c \in 1..Len(rows[i]) |->
        IF c \in {billableUnitsTotalIdx, priorClaimIdx, possibleIdx, confirmedIdx}
        THEN Str("") ELSE rows[i][c]]]

\* C21: the accepted tab and the investigation tab of a run are those of a
\* run on an accepted file that differs only by holding '' in 'Billable
\* Units Total', 'Prior Claim', 'Possible' and 'Confirmed' (with the same
\* claim file): what the file holds in these four columns never shows.
C21_DerivedColumnsOfFileNeverShow ==
  processedTabs # Null =>
    \E tabs \in ProcessOutcomes(
                  Fulfilled(run.acceptedPromise.headers, BlankDerived(extractedAccepted)),
                  run.claimPromise) :
      /\ tabs[1].data = acceptedTab
      /\ tabs[3].data = investigationTab

\* C21 witness: a finished run on a file row that holds "Review" in its four
\* derived columns and has no claim row for its Visit ID, shown with an empty
\* 'Prior Claim', next to a reported row.
C21_Witness ==
  /\ processedTabs # Null
  /\ Len(claimTab) = 0
  /\ \E k \in 1..Len(investigationTab) : IsDataRow(investigationTab[k])
  /\ \E i \in 1..Len(extractedAccepted) :
       /\ extractedAccepted[i][priorClaimIdx] = Str("Review")
       /\ extractedAccepted[i][billableUnitsTotalIdx] = Str("Review")
  /\ \A i \in 1..Len(acceptedTab) : acceptedTab[i][priorClaimIdx] = Str("")

\* a cell that is empty or does not read as a number
NotNumeric(c) ==
  \/ c = Str("")
  \/ c.t = "string" /\ IsNaN(ParseFloat(c.s))
  \/ IsNaN(c)

\* the positions of rows whose Billable Units read as a number
NumericRows(rows) == {j \in 1..Len(rows) : ~NotNumeric(rows[j][billableUnitsIdx])}

\* the positions of rows whose looked-up Claim Units read as a number
NumericPriors(rows) == {j \in 1..Len(rows) : ~NotNumeric(rows[j][priorClaimIdx])}

\* C22: a row whose Billable Units are empty or not numeric counts as 0
\* units: its group's total is the sum over the group's other rows and it is
\* never a data row of the investigation tab; a looked-up Claim Units value
\* that is empty or not numeric stands unchanged in 'Prior Claim' and adds 0
\* to the group's Prior-Claim sum.
C22_NonNumericUnitsCountAsZero ==
  processedTabs # Null =>
    \A i \in 1..Len(acceptedTab) :
      /\ NotNumeric(acceptedTab[i][billableUnitsIdx]) =>
           /\ acceptedTab[MaxOf(GroupOf(acceptedTab, i))][billableUnitsTotalIdx] =
                Num(SumOver(BillableUnitsOf(acceptedTab),
                            GroupOf(acceptedTab, i) \cap NumericRows(acceptedTab)))
           /\ \A k \in 1..Len(investigationTab) :
                IsDataRow(investigationTab[k]) =>
                  SubSeq(investigationTab[k].cells, 1, 16) # acceptedTab[i]
      /\ (ClaimMatches(claimTab, acceptedTab[i]) # {}
            /\ NotNumeric(claimTab[MaxOf(ClaimMatches(claimTab, acceptedTab[i]))][claimUnitsIdx])) =>
           /\ acceptedTab[i][priorClaimIdx] =
                claimTab[MaxOf(ClaimMatches(claimTab, acceptedTab[i]))][claimUnitsIdx]
           /\ acceptedTab[i][possibleIdx] = Str("NO") <=>
                SumOver(BillableUnitsOf(acceptedTab), GroupOf(acceptedTab, i))
                  = SumOver(PriorUnitsOf(acceptedTab, claimTab),
                            GroupOf(acceptedTab, i) \cap NumericPriors(acceptedTab))

\* C22 witness: a group of a row with 2 units and a row with empty units,
\* total 2, the empty-units row under review and unreported, its 'Prior
\* Claim' the empty Claim Units looked up for it; and a row with units "n/a".
C22_Witness ==
  /\ processedTabs # Null
  /\ \E i, j, k \in 1..Len(acceptedTab) :
       /\ acceptedTab[i][billableUnitsIdx] = Num(2)
       /\ j = MaxOf(GroupOf(acceptedTab, i))
       /\ acceptedTab[j][billableUnitsIdx] = Str("")
       /\ acceptedTab[j][billableUnitsTotalIdx] = Num(2)
       /\ acceptedTab[j][confirmedIdx] = Str("Review")
       /\ ClaimMatches(claimTab, acceptedTab[j]) # {}
       /\ acceptedTab[j][priorClaimIdx] = Str("")
       /\ acceptedTab[k][billableUnitsIdx] = Str("n/a")
  /\ \E k \in 1..Len(investigationTab) : IsDataRow(investigationTab[k])

\* C23: when every Visit Date is valid, the re-sort of the report reorders
\* nothing: the data rows of the investigation tab are the qualifying rows
\* of the accepted tab in the accepted tab's order, so data rows with one
\* Payer Name and one Medicaid ID are in ascending Visit Date order.
C23_ResortKeepsAcceptedOrder ==
  (processedTabs # Null /\ AllDatesValid(extractedAccepted)) =>
    /\ ReportedFrom(DataRowsOf(investigationTab), SelectSeq(acceptedTab, Qualifies))
    /\ \A i, j \in 1..Len(DataRowsOf(investigationTab)) :
         (/\ i < j
          /\ DataRowsOf(investigationTab)[i][payerNameIdx]
               = DataRowsOf(investigationTab)[j][payerNameIdx]
          /\ DataRowsOf(investigationTab)[i][medicaidIdIdx]
               = DataRowsOf(investigationTab)[j][medicaidIdIdx])
         => TimeOf(DataRowsOf(investigationTab)[i][visitDateIdx]).n
              <= TimeOf(DataRowsOf(investigationTab)[j][visitDateIdx]).n

\* C23 witness: valid dates, a file whose first row is reported last: three
\* data rows, the first of another Medicaid ID than the second, the second
\* and third of one payer and Medicaid ID on different dates.
C23_Witness ==
  /\ processedTabs # Null
  /\ AllDatesValid(extractedAccepted)
  /\ Len(DataRowsOf(investigationTab)) = 3
  /\ SubSeq(DataRowsOf(investigationTab)[3], 1, 11) = SubSeq(extractedAccepted[1], 1, 11)
  /\ DataRowsOf(investigationTab)[1][medicaidIdIdx]
       # DataRowsOf(investigationTab)[2][medicaidIdIdx]
  /\ DataRowsOf(investigationTab)[2][medicaidIdIdx]
       = DataRowsOf(investigationTab)[3][medicaidIdIdx]
  /\ DataRowsOf(investigationTab)[2][payerNameIdx]
       = DataRowsOf(investigationTab)[3][payerNameIdx]
  /\ DataRowsOf(investigationTab)[2][visitDateIdx]
       # DataRowsOf(investigationTab)[3][visitDateIdx]

\* the payer group-header rows of a tab that announce the Payer Name `name`
PayerHeadersFor(tab, name) ==
  {h \in 1..Len(tab) : tab[h].isGroupHeader = "payer" /\ tab[h].cells[1] = Str(name)}

\* the position of the payer header a row stands under (0: under none)
PayerHeaderOver(tab, k) ==
  MaxOf({0} \cup {h \in 1..k : tab[h].isGroupHeader = "payer"})

\* the medicaid group-header rows that announce the Medicaid ID of data row
\* k under the payer header row k stands under
MedicaidHeadersFor(tab, k) ==
  {h \in 1..Len(tab) :
     /\ tab[h].isGroupHeader = "medicaid"
     /\ tab[h].cells[1] = Str("Medicaid ID: " \o CellText(tab[k].cells[medicaidIdIdx]))
     /\ PayerHeaderOver(tab, h) = PayerHeaderOver(tab, k)}

\* C24: in the investigation tab the Payer Name of every data row is
\* announced by exactly one payer group-header row, and its Medicaid ID by
\* exactly one medicaid group-header row under the payer header it stands
\* under.
C24_OneHeaderPerDistinctValue ==
  processedTabs # Null =>
    \A k \in 1..Len(investigationTab) :
      IsDataRow(investigationTab[k]) =>
        /\ Cardinality(PayerHeadersFor(investigationTab,
             CellText(investigationTab[k].cells[payerNameIdx]))) = 1
        /\ Cardinality(MedicaidHeadersFor(investigationTab, k)) = 1

\* a step that starts a run: a run record with both extractions pending
RunStarts ==
  /\ run' # run
  /\ run'.active
  /\ run'.acceptedPromise.status = "pending"
  /\ run'.claimPromise.status = "pending"

\* C25: at most one run is in flight. A run starts only with both files
\* selected, isProcessing false and no run in flight, on the files selected
\* at that moment; isProcessing is true exactly while a run is in flight;
\* tabs are put on display only by the end of the run in flight, and are
\* made of that run's files; with a file missing and no run in flight no
\* step changes isProcessing, the run in flight, the alerts or puts tabs on
\* display; and every run eventually ends with isProcessing false. The
\* tabulated steps the fairness conditions are stated on are the steps of
\* acceptedExtractionSettles, claimExtractionSettles and processSucceeds.
C25_OneRunAtATime ==
  /\ [][/\ RunStarts =>
             /\ evvAcceptedFile # NoFile /\ evvClaimFile # NoFile
             /\ ~isProcessing /\ ~run.active
             /\ isProcessing'
             /\ run'.accepted = evvAcceptedFile /\ run'.claim = evvClaimFile
        /\ (isProcessing /\ ~isProcessing') => (run.active /\ ~run'.active)
        /\ (processedTabs' # processedTabs /\ processedTabs' # Null) =>
             /\ run.active /\ ~run'.active
             /\ claimTab' = FileRows(run.claim)
             /\ RearrangedFrom(acceptedTab', FileRows(run.accepted))
        /\ ((evvAcceptedFile = NoFile \/ evvClaimFile = NoFile) /\ ~run.active) =>
             /\ isProcessing' = isProcessing
             /\ run'.active = run.active
             /\ alerts' = alerts
             /\ processedTabs' \in {processedTabs, Null}
        /\ (acceptedExtractionSettlesTabulated <=> acceptedExtractionSettles)
        /\ (claimExtractionSettlesTabulated <=> claimExtractionSettles)
        /\ (processSucceedsTabulated <=> processSucceeds)]_vars
  /\ [](isProcessing <=> run.active)
  /\ (isProcessing ~> ~isProcessing)

\* C25 witness: two runs have ended, one by failure and one by success, and
\* a file has been removed since: no run is in flight, tabs are on display.
C25_Witness ==
  /\ ~isProcessing
  /\ ~run.active
  /\ run.accepted # NoFile
  /\ alerts = 1
  /\ processedTabs # Null
  /\ evvClaimFile = NoFile

====
